---- MODULE Spec2Model ----
(***************************************************************************)
(* Model of the `hal miniscript` command handlers                          *)
(* (src/src/bin/hal/cmd/miniscript.rs): descriptor, inspect, parse, policy *)
(* and compile; of `hal key` pubkey-tweak-add, ecdsa-verify and            *)
(* schnorr-verify (cmd/key.rs); and of `hal address create`                *)
(* (cmd/address.rs).  One behaviour is one invocation of one command.      *)
(*                                                                         *)
(* The rust-miniscript library (parser, analyzer, lifter, compiler) is an  *)
(* external collaborator.  Its answers for the input at hand are drawn     *)
(* from small sets: the attributes that it computes from the expression    *)
(* tree alone (script bytes, satisfaction costs, lifted policy, the        *)
(* boolean metrics read from the tree) are fixed once per input and are    *)
(* the same in every context in which the input parses; what depends on    *)
(* the context (whether the expression is accepted, whether it is within   *)
(* the context's resource limits, whether it passes the sanity check,      *)
(* whether lifting is refused) is drawn per context.                       *)
(***************************************************************************)
EXTENDS Integers, Sequences, FiniteSets, TLC

\* ------------------------------------------------------------------ bounds
MaxExpr      == 1   \* the inputs of inspect/parse are expressions 1..MaxExpr
MaxSat       == 1   \* satisfaction cost profiles are numbered 1..MaxSat
MaxPolicy    == 1   \* policy texts are numbered 1..MaxPolicy
MaxKeys      == 1   \* policies hold 0..MaxKeys keys

\* ------------------------------------------------------------ Option<T>
None == <<>>
Some(v) == <<v>>
IsSome(o) == o # None
IsNone(o) == o = None
\* Option::or
OptOr(a, b) == IF IsSome(a) THEN a ELSE b

\* ------------------------------------------------------------ contexts
Contexts == {"bare", "p2sh", "segwitv0", "tapscript"}
\* the contexts exec_inspect and exec_parse construct a Miniscript under
TriedContexts == {"bare", "p2sh", "segwitv0"}
KeyTypes == {"PublicKey", "String"}

\* ScriptContexts::from_bare / from_p2sh / from_segwitv0: one flag set
ScriptContexts_from(c, b) ==
    [ bare      |-> (c = "bare") /\ b,
      p2sh      |-> (c = "p2sh") /\ b,
      segwitv0  |-> (c = "segwitv0") /\ b,
      tapscript |-> (c = "tapscript") /\ b ]
\* ScriptContexts::or: per-context OR
ScriptContexts_or(a, b) ==
    [ bare      |-> a.bare \/ b.bare,
      p2sh      |-> a.p2sh \/ b.p2sh,
      segwitv0  |-> a.segwitv0 \/ b.segwitv0,
      tapscript |-> a.tapscript \/ b.tapscript ]

\* ------------------------------------------------- library answers (input)
\* the script encoding of expression n (distinct expressions encode
\* differently; here expression n encodes to n bytes) and the policy string
\* it lifts to
Script(n) == [i \in 1..n |-> 172]
Lifted(n) == <<"policy", n>>

\* the satisfaction cost profiles of the library's ExtData: profile n costs n
\* witness elements, n witness bytes and n scriptSig bytes
SatCosts == 1..MaxSat

\* what the library derives from the expression tree alone
AstInputs ==
    [ expr                : 1..MaxExpr,
      sat                 : {None} \cup {Some(s) : s \in SatCosts},
      requires_sig        : BOOLEAN,
      non_malleable       : BOOLEAN,
      has_mixed_timelocks : BOOLEAN,
      has_repeated_keys   : BOOLEAN,
      tapscript_ok        : BOOLEAN ]

\* what the library decides per context for an expression it accepts there
CtxAnswers ==
    [ within_resource_limits : BOOLEAN,
      sanity_check_ok        : BOOLEAN,
      lift_ok                : BOOLEAN ]

\* Miniscript<Pk, Ctx>: the library's value for the input under one context
Ms(ast, ans) ==
    [ script_size            |-> Len(Script(ast.expr)),
      encode                 |-> Script(ast.expr),
      sat                    |-> ast.sat,
      lift                   |-> IF ans.lift_ok THEN Some(Lifted(ast.expr)) ELSE None,
      requires_sig           |-> ast.requires_sig,
      is_non_malleable       |-> ast.non_malleable,
      within_resource_limits |-> ans.within_resource_limits,
      has_mixed_timelocks    |-> ast.has_mixed_timelocks,
      has_repeated_keys      |-> ast.has_repeated_keys,
      sanity_check_ok        |-> ans.sanity_check_ok ]

\* Result<Miniscript<Pk, Ctx>, Error> of from_str_insane / parse_insane
ParseResults(ast) == {None} \cup {Some(Ms(ast, ans)) : ans \in CtxAnswers}

\* Option<usize> of the satisfaction cost getters
\* (absent when the expression has no satisfaction)
MaxSatElems(ms) == ms.sat
MaxSatWitness(ms) == ms.sat
MaxSatScriptSig(ms) == ms.sat

\* -------------------------------------------------------- MiniscriptInfo
\* from_bare that reports its non-malleability under every context
from_bare_non_malleable_everywhere(ms, key_type, script) ==
    [ key_type                          |-> key_type,
      valid_script_contexts             |-> ScriptContexts_from("bare", TRUE),
      script_size                       |-> ms.script_size,
      max_satisfaction_witness_elements |-> MaxSatElems(ms),
      max_satisfaction_size_segwit      |-> None,
      max_satisfaction_size_non_segwit  |-> MaxSatScriptSig(ms),
      script                            |-> script,
      policy                            |-> ms.lift,
      requires_sig                      |-> ms.requires_sig,
      non_malleable          |-> [ bare      |-> ms.is_non_malleable,
                                   p2sh      |-> ms.is_non_malleable,
                                   segwitv0  |-> ms.is_non_malleable,
                                   tapscript |-> ms.is_non_malleable ],
      within_resource_limits |-> ScriptContexts_from("bare", ms.within_resource_limits),
      has_mixed_timelocks               |-> ms.has_mixed_timelocks,
      has_repeated_keys                 |-> ms.has_repeated_keys,
      sane_miniscript        |-> ScriptContexts_from("bare", ms.sanity_check_ok) ]

from_bare(ms, key_type, script) ==
    [ key_type                          |-> key_type,
      valid_script_contexts             |-> ScriptContexts_from("bare", TRUE),
      script_size                       |-> ms.script_size,
      max_satisfaction_witness_elements |-> MaxSatElems(ms),
      max_satisfaction_size_segwit      |-> None,
      max_satisfaction_size_non_segwit  |-> MaxSatScriptSig(ms),
      script                            |-> script,
      policy                            |-> ms.lift,
      requires_sig                      |-> ms.requires_sig,
      non_malleable          |-> ScriptContexts_from("bare", ms.is_non_malleable),
      within_resource_limits |-> ScriptContexts_from("bare", ms.within_resource_limits),
      has_mixed_timelocks               |-> ms.has_mixed_timelocks,
      has_repeated_keys                 |-> ms.has_repeated_keys,
      sane_miniscript        |-> ScriptContexts_from("bare", ms.sanity_check_ok) ]

\* from_p2sh that marks the Bare context valid instead of its own
from_p2sh_flags_bare(ms, key_type, script) ==
    [ from_bare(ms, key_type, script) EXCEPT
        !.non_malleable          = ScriptContexts_from("p2sh", ms.is_non_malleable),
        !.within_resource_limits = ScriptContexts_from("p2sh", ms.within_resource_limits),
        !.sane_miniscript        = ScriptContexts_from("p2sh", ms.sanity_check_ok) ]

from_p2sh(ms, key_type, script) ==
    [ key_type                          |-> key_type,
      valid_script_contexts             |-> ScriptContexts_from("p2sh", TRUE),
      script_size                       |-> ms.script_size,
      max_satisfaction_witness_elements |-> MaxSatElems(ms),
      max_satisfaction_size_segwit      |-> None,
      max_satisfaction_size_non_segwit  |-> MaxSatScriptSig(ms),
      script                            |-> script,
      policy                            |-> ms.lift,
      requires_sig                      |-> ms.requires_sig,
      non_malleable          |-> ScriptContexts_from("p2sh", ms.is_non_malleable),
      within_resource_limits |-> ScriptContexts_from("p2sh", ms.within_resource_limits),
      has_mixed_timelocks               |-> ms.has_mixed_timelocks,
      has_repeated_keys                 |-> ms.has_repeated_keys,
      sane_miniscript        |-> ScriptContexts_from("p2sh", ms.sanity_check_ok) ]

\* from_segwitv0 that fills the non-segwit size as the other two do
from_segwitv0_keeps_non_segwit(ms, key_type, script) ==
    [ from_p2sh(ms, key_type, script) EXCEPT
        !.valid_script_contexts        = ScriptContexts_from("segwitv0", TRUE),
        !.max_satisfaction_size_segwit = MaxSatWitness(ms),
        !.non_malleable          = ScriptContexts_from("segwitv0", ms.is_non_malleable),
        !.within_resource_limits =
            ScriptContexts_from("segwitv0", ms.within_resource_limits),
        !.sane_miniscript        = ScriptContexts_from("segwitv0", ms.sanity_check_ok) ]

from_segwitv0(ms, key_type, script) ==
    [ key_type                          |-> key_type,
      valid_script_contexts             |-> ScriptContexts_from("segwitv0", TRUE),
      script_size                       |-> ms.script_size,
      max_satisfaction_witness_elements |-> MaxSatElems(ms),
      max_satisfaction_size_segwit      |-> MaxSatWitness(ms),
      max_satisfaction_size_non_segwit  |-> None,
      script                            |-> script,
      policy                            |-> ms.lift,
      requires_sig                      |-> ms.requires_sig,
      non_malleable          |-> ScriptContexts_from("segwitv0", ms.is_non_malleable),
      within_resource_limits |-> ScriptContexts_from("segwitv0", ms.within_resource_limits),
      has_mixed_timelocks               |-> ms.has_mixed_timelocks,
      has_repeated_keys                 |-> ms.has_repeated_keys,
      sane_miniscript        |-> ScriptContexts_from("segwitv0", ms.sanity_check_ok) ]

\* the (Some(a), Some(b)) arm of combine; has_repeated_keys is read from b
\* where its neighbours are read from a
combine_both(a, b) ==
    [ key_type                          |-> a.key_type,
      valid_script_contexts             |->
          ScriptContexts_or(a.valid_script_contexts, b.valid_script_contexts),
      script_size                       |-> a.script_size,
      max_satisfaction_witness_elements |->
          OptOr(a.max_satisfaction_witness_elements, b.max_satisfaction_witness_elements),
      max_satisfaction_size_segwit      |->
          OptOr(a.max_satisfaction_size_segwit, b.max_satisfaction_size_segwit),
      max_satisfaction_size_non_segwit  |->
          OptOr(a.max_satisfaction_size_non_segwit, b.max_satisfaction_size_non_segwit),
      script                            |-> a.script,
      policy                            |-> OptOr(a.policy, b.policy),
      requires_sig                      |-> a.requires_sig,
      non_malleable          |-> ScriptContexts_or(a.non_malleable, b.non_malleable),
      within_resource_limits |->
          ScriptContexts_or(a.within_resource_limits, b.within_resource_limits),
      has_mixed_timelocks               |-> a.has_mixed_timelocks,
      has_repeated_keys                 |-> b.has_repeated_keys,
      sane_miniscript        |-> ScriptContexts_or(a.sane_miniscript, b.sane_miniscript) ]

\* combine gone wrong, four ways: the validity flags of b are dropped; the
\* policy of b is never consulted; the segwit size of b is never consulted;
\* the (None, Some(b)) arm returns None
combine_drops_flags(a, b) ==
    CASE IsNone(a) /\ IsNone(b) -> None
      [] IsNone(a) /\ IsSome(b) -> b
      [] IsSome(a) /\ IsNone(b) -> a
      [] OTHER -> Some([combine_both(a[1], b[1])
                          EXCEPT !.valid_script_contexts = a[1].valid_script_contexts])

combine_policy_of_first(a, b) ==
    CASE IsNone(a) /\ IsNone(b) -> None
      [] IsNone(a) /\ IsSome(b) -> b
      [] IsSome(a) /\ IsNone(b) -> a
      [] OTHER -> Some([combine_both(a[1], b[1]) EXCEPT !.policy = a[1].policy])

combine_segwit_size_of_first(a, b) ==
    CASE IsNone(a) /\ IsNone(b) -> None
      [] IsNone(a) /\ IsSome(b) -> b
      [] IsSome(a) /\ IsNone(b) -> a
      [] OTHER -> Some([combine_both(a[1], b[1])
                          EXCEPT !.max_satisfaction_size_segwit =
                                     a[1].max_satisfaction_size_segwit])

combine_loses_second(a, b) ==
    CASE IsNone(a) /\ IsNone(b) -> None
      [] IsNone(a) /\ IsSome(b) -> None
      [] IsSome(a) /\ IsNone(b) -> a
      [] OTHER                  -> Some(combine_both(a[1], b[1]))

\* combine whose (Some(a), None) arm returns None
combine_loses_first(a, b) ==
    CASE IsNone(a) /\ IsNone(b) -> None
      [] IsNone(a) /\ IsSome(b) -> b
      [] IsSome(a) /\ IsNone(b) -> None
      [] OTHER                  -> Some(combine_both(a[1], b[1]))

\* MiniscriptInfo::combine
combine(a, b) ==
    CASE IsNone(a) /\ IsNone(b) -> None
      [] IsNone(a) /\ IsSome(b) -> b
      [] IsSome(a) /\ IsNone(b) -> a
      [] OTHER                  -> Some(combine_both(a[1], b[1]))

\* ------------------------------------------------------------------ state
VARIABLES
    cmd,          \* the subcommand being executed, "none" before dispatch
    pc,           \* position inside the handler
    input,        \* the library's tree-level answers for the input
    bare_info,    \* Option<MiniscriptInfo> of the Bare attempt
    p2sh_info,    \* Option<MiniscriptInfo> of the Legacy attempt
    segwit_info,  \* Option<MiniscriptInfo> of the Segwitv0 attempt
    printed,      \* Option: the value handed to print_output
    failures,     \* the messages of need / exit! / eprintln! and of the usage exits
    log,          \* the debug! / info! records emitted
    calls         \* the library calls made, in order (compilations, verifications)

vars == <<cmd, pc, input, bare_info, p2sh_info, segwit_info, printed, failures, log, calls>>

Init ==
    /\ cmd = "none"
    /\ pc = "dispatch"
    /\ input = None
    /\ bare_info = None
    /\ p2sh_info = None
    /\ segwit_info = None
    /\ printed = None
    /\ failures = <<>>
    /\ log = <<>>
    /\ calls = <<>>

\* a parse failure is logged at `level`; a refused lift is logged at info
ParseLog(level, ctx, r) ==
    IF IsNone(r) THEN <<[level |-> level, what |-> "parse", ctx |-> ctx]>>
    ELSE IF IsNone(r[1].lift) THEN <<[level |-> "info", what |-> "lift", ctx |-> ctx]>>
    ELSE <<>>

\* ------------------------------------------------------------ exec_inspect
ExecInspect ==
    /\ cmd = "none"
    /\ \E ast \in AstInputs : input' = Some(ast)
    /\ cmd' = "inspect"
    /\ pc' = "pk_bare"
    /\ UNCHANGED <<bare_info, p2sh_info, segwit_info, printed, failures, log, calls>>

\* the encoded script handed over with placeholder keys too
InspectScript_always(key_type, ms) == Some(ms.encode)

\* the script handed to from_*: Some(x.encode()) with keys, None with strings
InspectScript(key_type, ms) == IF key_type = "PublicKey" THEN Some(ms.encode) ELSE None

InspectBare(key_type, at, next) ==
    /\ cmd = "inspect" /\ pc = at
    /\ \E r \in ParseResults(input[1]) :
        /\ bare_info' = IF IsSome(r)
                        THEN Some(from_bare(r[1], key_type, InspectScript(key_type, r[1])))
                        ELSE None
        /\ log' = log \o ParseLog("debug", "bare", r)
    /\ pc' = next
    /\ UNCHANGED <<cmd, input, p2sh_info, segwit_info, printed, failures, calls>>

InspectP2sh(key_type, at, next) ==
    /\ cmd = "inspect" /\ pc = at
    /\ \E r \in ParseResults(input[1]) :
        /\ p2sh_info' = IF IsSome(r)
                        THEN Some(from_p2sh(r[1], key_type, InspectScript(key_type, r[1])))
                        ELSE None
        /\ log' = log \o ParseLog("debug", "p2sh", r)
    /\ pc' = next
    /\ UNCHANGED <<cmd, input, bare_info, segwit_info, printed, failures, calls>>

\* the Segwitv0 attempt logging its parse failure at debug like the others
InspectSegwit_logs_debug(key_type, at, next) ==
    /\ cmd = "inspect" /\ pc = at
    /\ \E r \in ParseResults(input[1]) :
        /\ segwit_info' = IF IsSome(r)
                          THEN Some(from_segwitv0(r[1], key_type, InspectScript(key_type, r[1])))
                          ELSE None
        /\ log' = log \o ParseLog("debug", "segwitv0", r)
    /\ pc' = next
    /\ UNCHANGED <<cmd, input, bare_info, p2sh_info, printed, failures, calls>>

InspectSegwit(key_type, at, next) ==
    /\ cmd = "inspect" /\ pc = at
    /\ \E r \in ParseResults(input[1]) :
        /\ segwit_info' = IF IsSome(r)
                          THEN Some(from_segwitv0(r[1], key_type, InspectScript(key_type, r[1])))
                          ELSE None
        /\ log' = log \o ParseLog("info", "segwitv0", r)
    /\ pc' = next
    /\ UNCHANGED <<cmd, input, bare_info, p2sh_info, printed, failures, calls>>

InspectPkBare   == InspectBare("PublicKey", "pk_bare", "pk_p2sh")
InspectPkP2sh   == InspectP2sh("PublicKey", "pk_p2sh", "pk_segwit")
InspectPkSegwit == InspectSegwit("PublicKey", "pk_segwit", "pk_done")

\* line 105, then branch: every concrete-key attempt failed, retry with strings
InspectTryStrings ==
    /\ cmd = "inspect" /\ pc = "pk_done"
    /\ IsNone(bare_info) /\ IsNone(p2sh_info) /\ IsNone(segwit_info)
    /\ pc' = "str_bare"
    /\ UNCHANGED <<cmd, input, bare_info, p2sh_info, segwit_info, printed, failures, log, calls>>

InspectStrBare   == InspectBare("String", "str_bare", "str_p2sh")
\* the Legacy retry parsing with concrete keys again
InspectStrP2sh_concrete == InspectP2sh("PublicKey", "str_p2sh", "str_segwit")
InspectStrP2sh   == InspectP2sh("String", "str_p2sh", "str_segwit")
InspectStrSegwit == InspectSegwit("String", "str_segwit", "str_done")

\* lines 120-121: combine(..).need("Invalid Miniscript"), then print_output
InspectCombineStr ==
    /\ cmd = "inspect" /\ pc = "str_done"
    /\ LET info == combine(combine(bare_info, p2sh_info), segwit_info) IN
        IF IsSome(info)
        THEN /\ printed' = info
             /\ failures' = failures
             /\ pc' = "done"
        ELSE /\ printed' = printed
             /\ failures' = Append(failures, <<"Invalid Miniscript">>)
             /\ pc' = "exit"
    /\ UNCHANGED <<cmd, input, bare_info, p2sh_info, segwit_info, log, calls>>

\* lines 123-124: combine(..).unwrap(), then print_output
InspectCombinePk ==
    /\ cmd = "inspect" /\ pc = "pk_done"
    /\ ~(IsNone(bare_info) /\ IsNone(p2sh_info) /\ IsNone(segwit_info))
    /\ LET info == combine(combine(bare_info, p2sh_info), segwit_info) IN
        IF IsSome(info)
        THEN /\ printed' = info
             /\ pc' = "done"
        ELSE /\ printed' = printed
             /\ pc' = "panic"
    /\ UNCHANGED <<cmd, input, bare_info, p2sh_info, segwit_info, failures, log, calls>>

\* -------------------------------------------------------------- exec_parse
\* line 136: the hex argument decodes, or need("invalid hex script") exits
ExecParse ==
    /\ cmd = "none"
    /\ cmd' = "parse"
    /\ \/ /\ \E ast \in AstInputs : input' = Some(ast)
          /\ pc' = "parse_segwit"
          /\ failures' = failures
       \/ /\ input' = None
          /\ pc' = "exit"
          /\ failures' = Append(failures, <<"invalid hex script">>)
    /\ UNCHANGED <<bare_info, p2sh_info, segwit_info, printed, log, calls>>

ParseSegwit ==
    /\ cmd = "parse" /\ pc = "parse_segwit"
    /\ \E r \in ParseResults(input[1]) :
        /\ segwit_info' = IF IsSome(r)
                          THEN Some(from_segwitv0(r[1], "PublicKey", Some(Script(input[1].expr))))
                          ELSE None
        /\ log' = log \o ParseLog("info", "segwitv0", r)
    /\ pc' = "parse_legacy"
    /\ UNCHANGED <<cmd, input, bare_info, p2sh_info, printed, failures, calls>>

ParseLegacy ==
    /\ cmd = "parse" /\ pc = "parse_legacy"
    /\ \E r \in ParseResults(input[1]) :
        /\ p2sh_info' = IF IsSome(r)
                        THEN Some(from_p2sh(r[1], "PublicKey", Some(Script(input[1].expr))))
                        ELSE None
        /\ log' = log \o ParseLog("debug", "p2sh", r)
    /\ pc' = "parse_bare"
    /\ UNCHANGED <<cmd, input, bare_info, segwit_info, printed, failures, calls>>

ParseBare ==
    /\ cmd = "parse" /\ pc = "parse_bare"
    /\ \E r \in ParseResults(input[1]) :
        /\ bare_info' = IF IsSome(r)
                        THEN Some(from_bare(r[1], "PublicKey", Some(Script(input[1].expr))))
                        ELSE None
        /\ log' = log \o ParseLog("debug", "bare", r)
    /\ pc' = "parse_done"
    /\ UNCHANGED <<cmd, input, p2sh_info, segwit_info, printed, failures, calls>>

\* lines 152-154: exit! when no context accepted the script
ParseExit ==
    /\ cmd = "parse" /\ pc = "parse_done"
    /\ IsNone(segwit_info) /\ IsNone(p2sh_info) /\ IsNone(bare_info)
    /\ failures' = Append(failures, <<"Invalid Miniscript under all script contexts">>)
    /\ pc' = "exit"
    /\ UNCHANGED <<cmd, input, bare_info, p2sh_info, segwit_info, printed, log, calls>>

\* lines 156-159: combine(..).unwrap(), then print_output
ParseCombine ==
    /\ cmd = "parse" /\ pc = "parse_done"
    /\ ~(IsNone(segwit_info) /\ IsNone(p2sh_info) /\ IsNone(bare_info))
    /\ LET comb_info == combine(combine(bare_info, p2sh_info), segwit_info) IN
        IF IsSome(comb_info)
        THEN /\ printed' = comb_info
             /\ pc' = "done"
        ELSE /\ printed' = printed
             /\ pc' = "panic"
    /\ UNCHANGED <<cmd, input, bare_info, p2sh_info, segwit_info, failures, log, calls>>

\* ------------------------------------------------- policy library answers
\* what the library answers for a policy text: whether it parses as a
\* policy::Concrete<Pk> / policy::Semantic<Pk> per key type, whether the
\* concrete policy lifts, the analysis of the semantic policy, and whether
\* best_compilation succeeds per context.  minimum_n_keys() is None exactly
\* for a policy without satisfaction, so an unsatisfiable policy has none.
PolicyInputs ==
    { p \in [ concrete         : [KeyTypes -> BOOLEAN],
              semantic         : [KeyTypes -> BOOLEAN],
              lift_ok          : BOOLEAN,
              is_trivial       : BOOLEAN,
              is_unsatisfiable : BOOLEAN,
              n_keys           : 0..MaxKeys,
              minimum_n_keys   : {None} \cup {Some(k) : k \in 0..MaxKeys},
              id               : 1..MaxPolicy,
              compiles         : [Contexts -> BOOLEAN] ] :
        /\ p.is_unsatisfiable => IsNone(p.minimum_n_keys)
        /\ ~(p.is_trivial /\ p.is_unsatisfiable)
        /\ IsSome(p.minimum_n_keys) => p.minimum_n_keys[1] <= p.n_keys }

\* Result of policy::compiler::best_compilation::<Pk, Ctx>(&p)
best_compilation(p, ctx) ==
    IF p.compiles[ctx] THEN [ok |-> TRUE, ms |-> <<"ms", ctx, p.id>>]
    ELSE [ok |-> FALSE, ms |-> <<>>]

\* one arm of the Miniscripts literal: Ok(ms) => Some(ms.to_string()), Err => None
MiniscriptsEntry(p, ctx) ==
    IF best_compilation(p, ctx).ok THEN Some(best_compilation(p, ctx).ms) ELSE None

\* the Miniscripts literal given up as soon as one compilation fails
Miniscripts_all_or_nothing(p, is_concrete) ==
    IF is_concrete /\ p.compiles["bare"] /\ p.compiles["p2sh"] /\ p.compiles["segwitv0"]
    THEN Some([ bare     |-> MiniscriptsEntry(p, "bare"),
                p2sh     |-> MiniscriptsEntry(p, "p2sh"),
                segwitv0 |-> MiniscriptsEntry(p, "segwitv0") ])
    ELSE None

\* lines 198-220: concrete_pol.map(|p| Miniscripts { bare, p2sh, segwitv0 })
Miniscripts(p, is_concrete) ==
    IF is_concrete
    THEN Some([ bare     |-> MiniscriptsEntry(p, "bare"),
                p2sh     |-> MiniscriptsEntry(p, "p2sh"),
                segwitv0 |-> MiniscriptsEntry(p, "segwitv0") ])
    ELSE None

\* get_policy_info::<Pk>: Err(e) or Ok(PolicyInfo); `compiled` lists the
\* contexts the compiler was invoked for, `logged` the debug! records
get_policy_info(p, key_type) ==
    LET is_concrete == p.concrete[key_type]
        failed(e) == [ok |-> FALSE, err |-> e, info |-> None, compiled |-> <<>>, logged |-> <<>>]
    IN  IF is_concrete /\ ~p.lift_ok THEN failed("lift")
        ELSE IF ~is_concrete /\ ~p.semantic[key_type] THEN failed("parse")
        ELSE IF IsNone(p.minimum_n_keys) THEN failed("CouldNotSatisfy")
        ELSE [ ok   |-> TRUE,
               err  |-> "",
               info |-> Some(
                 [ is_concrete      |-> is_concrete,
                   key_type         |-> key_type,
                   is_trivial       |-> p.is_trivial,
                   is_unsatisfiable |-> p.is_unsatisfiable,
                   n_keys           |-> p.n_keys,
                   minimum_n_keys   |-> p.minimum_n_keys[1],
                   sorted           |-> <<"sorted", p.id>>,
                   normalized       |-> <<"normalized", p.id>>,
                   miniscript       |-> Miniscripts(p, is_concrete) ]),
               compiled |-> IF is_concrete THEN <<"bare", "p2sh", "segwitv0">> ELSE <<>>,
               logged   |-> IF is_concrete
                            THEN SelectSeq(
                                   [i \in 1..3 |->
                                      [level |-> "debug", what |-> "compile",
                                       ctx |-> <<"bare", "p2sh", "segwitv0">>[i]]],
                                   LAMBDA e : ~p.compiles[e.ctx])
                            ELSE <<>> ]

\* ------------------------------------------------------------- exec_policy
ExecPolicy ==
    /\ cmd = "none"
    /\ \E p \in PolicyInputs : input' = Some(p)
    /\ cmd' = "policy"
    /\ pc' = "policy_pk"
    /\ UNCHANGED <<bare_info, p2sh_info, segwit_info, printed, failures, log, calls>>

\* lines 229-232: first try a concrete policy with pubkeys
PolicyPk ==
    /\ cmd = "policy" /\ pc = "policy_pk"
    /\ LET r == get_policy_info(input[1], "PublicKey") IN
        /\ calls' = calls \o r.compiled
        /\ log' = log \o r.logged
        /\ IF r.ok
           THEN printed' = r.info /\ pc' = "done"
           ELSE printed' = printed /\ pc' = "policy_str"
    /\ UNCHANGED <<cmd, input, bare_info, p2sh_info, segwit_info, failures>>

\* lines 235-238: then try with strings
PolicyStr ==
    /\ cmd = "policy" /\ pc = "policy_str"
    /\ LET r == get_policy_info(input[1], "String") IN
        /\ calls' = calls \o r.compiled
        /\ log' = log \o r.logged
        /\ IF r.ok
           THEN printed' = r.info /\ failures' = failures /\ pc' = "done"
           ELSE /\ printed' = printed
                /\ failures' = Append(failures, <<"Invalid policy", r.err>>)
                /\ pc' = "exit"
    /\ UNCHANGED <<cmd, input, bare_info, p2sh_info, segwit_info>>

\* ------------------------------------------------------------ exec_compile
\* the values clap admits for --type (line 249)
ScriptTypes == {"bare", "p2sh", "segwitv0", "tapscript"}

\* the p2sh arm compiling for BareCtx
CompileContext_p2sh_as_bare(script_type) ==
    CASE script_type = "bare"      -> "bare"
      [] script_type = "p2sh"      -> "bare"
      [] script_type = "segwitv0"  -> "segwitv0"
      [] script_type = "tapscript" -> "tapscript"

\* lines 263-273: the context compiled for under each --type value
CompileContext(script_type) ==
    CASE script_type = "bare"      -> "bare"
      [] script_type = "p2sh"      -> "p2sh"
      [] script_type = "segwitv0"  -> "segwitv0"
      [] script_type = "tapscript" -> "tapscript"

ExecCompile ==
    /\ cmd = "none"
    /\ \E p \in PolicyInputs, t \in ScriptTypes :
        input' = Some([policy |-> p, script_type |-> t])
    /\ cmd' = "compile"
    /\ pc' = "compile_parse"
    /\ UNCHANGED <<bare_info, p2sh_info, segwit_info, printed, failures, log, calls>>

\* lines 259-261: parse::<policy::Concrete<bitcoin::PublicKey>>()
CompileParse ==
    /\ cmd = "compile" /\ pc = "compile_parse"
    /\ IF input[1].policy.concrete["PublicKey"]
       THEN failures' = failures /\ pc' = "compile_run"
       ELSE /\ failures' = Append(failures, <<"Invalid concrete policy">>)
            /\ pc' = "exit"
    /\ UNCHANGED <<cmd, input, bare_info, p2sh_info, segwit_info, printed, log, calls>>

\* lines 262-292: best_compilation under the requested type, print or exit!
CompileRun ==
    /\ cmd = "compile" /\ pc = "compile_run"
    /\ LET ctx == CompileContext(input[1].script_type)
           r == best_compilation(input[1].policy, ctx)
       IN /\ calls' = Append(calls, ctx)
          /\ IF r.ok
             THEN /\ printed' = Some([hex |-> <<"hex", r.ms>>, asm |-> <<"asm", r.ms>>])
                  /\ failures' = failures
                  /\ pc' = "done"
             ELSE /\ printed' = printed
                  /\ failures' = Append(failures, <<"Compilation error">>)
                  /\ pc' = "exit"
    /\ UNCHANGED <<cmd, input, bare_info, p2sh_info, segwit_info, log>>

\* ---------------------------------------------------------- exec_descriptor
\* the library's answers for a descriptor text
DescriptorInputs ==
    [ parses             : [KeyTypes -> BOOLEAN],
      address_ok         : BOOLEAN,
      explicit_script_ok : BOOLEAN,
      max_weight         : {None} \cup {Some(w) : w \in SatCosts},
      lift               : {None} \cup {Some(q) : q \in 1..MaxPolicy} ]

\* lines 46-55: the DescriptorInfo of a Descriptor<bitcoin::PublicKey>
DescriptorInfoPk(d) ==
    [ descriptor              |-> <<"descriptor">>,
      key_type                |-> "PublicKey",
      address                 |-> IF d.address_ok THEN Some(<<"address">>) ELSE None,
      script_pubkey           |-> Some(<<"script_pubkey">>),
      unsigned_script_sig     |-> Some(<<"unsigned_script_sig">>),
      witness_script          |-> IF d.explicit_script_ok
                                  THEN Some(<<"explicit_script">>) ELSE None,
      max_satisfaction_weight |-> d.max_weight,
      policy                  |-> d.lift ]

\* lines 59-68: the DescriptorInfo of a Descriptor<String>
DescriptorInfoStr(d) ==
    [ descriptor              |-> <<"descriptor">>,
      key_type                |-> "String",
      address                 |-> None,
      script_pubkey           |-> None,
      unsigned_script_sig     |-> None,
      witness_script          |-> None,
      max_satisfaction_weight |-> d.max_weight,
      policy                  |-> d.lift ]

ExecDescriptor ==
    /\ cmd = "none"
    /\ \E d \in DescriptorInputs : input' = Some(d)
    /\ cmd' = "descriptor"
    /\ pc' = "desc_pk"
    /\ UNCHANGED <<bare_info, p2sh_info, segwit_info, printed, failures, log, calls>>

\* lines 44-55 and 71
DescriptorPk ==
    /\ cmd = "descriptor" /\ pc = "desc_pk"
    /\ IF input[1].parses["PublicKey"]
       THEN /\ printed' = Some(DescriptorInfoPk(input[1]))
            /\ log' = log
            /\ pc' = "done"
       ELSE /\ printed' = printed
            /\ log' = Append(log, [level |-> "debug", what |-> "parse", ctx |-> "descriptor"])
            /\ pc' = "desc_str"
    /\ UNCHANGED <<cmd, input, bare_info, p2sh_info, segwit_info, failures, calls>>

\* lines 56-71: then try with strings; need("invalid miniscript")
DescriptorStr ==
    /\ cmd = "descriptor" /\ pc = "desc_str"
    /\ IF input[1].parses["String"]
       THEN /\ printed' = Some(DescriptorInfoStr(input[1]))
            /\ failures' = failures
            /\ pc' = "done"
       ELSE /\ printed' = printed
            /\ failures' = Append(failures, <<"invalid miniscript">>)
            /\ pc' = "exit"
    /\ UNCHANGED <<cmd, input, bare_info, p2sh_info, segwit_info, log, calls>>


\* ------------------------------------------------------- key (cmd/key.rs)
\* The secp256k1 group is cyclic of prime order with generator G; here it is
\* the additive group of the integers modulo GroupOrder with G = 1.  The
\* point at infinity (0) is no public key; a scalar is any residue.
GroupOrder == 5
PublicKeys == 1..(GroupOrder - 1)
Scalars == 0..(GroupOrder - 1)

\* PublicKey::add_exp_tweak(self, secp, tweak) -> Result<PublicKey, Error>:
\* self + tweak * G, an error when the sum is the point at infinity
add_exp_tweak(point, scalar) ==
    LET sum == (point + scalar) % GroupOrder
    IN  IF sum = 0 THEN [ok |-> FALSE, key |-> 0] ELSE [ok |-> TRUE, key |-> sum]

\* lines 267-273: need_pubkey("point"), then the scalar from 32 hex bytes;
\* each need exits with its message when the argument is malformed
ExecPubkeyTweakAdd ==
    /\ cmd = "none"
    /\ cmd' = "pubkey-tweak-add"
    /\ \/ /\ \E point \in PublicKeys, scalar \in Scalars :
                input' = Some([point |-> point, scalar |-> scalar])
          /\ pc' = "tweak"
          /\ failures' = failures
       \/ /\ input' = None
          /\ pc' = "exit"
          /\ \E msg \in {"invalid pubkey", "invalid scalar hex", "invalid scalar"} :
                failures' = Append(failures, <<msg>>)
    /\ UNCHANGED <<bare_info, p2sh_info, segwit_info, printed, log, calls>>

\* lines 275-283: match point.inner.add_exp_tweak(..): the Ok arm drops the
\* returned key and prints `point`; the Err arm prints the error and exits 1
PubkeyTweakAdd ==
    /\ cmd = "pubkey-tweak-add" /\ pc = "tweak"
    /\ IF add_exp_tweak(input[1].point, input[1].scalar).ok
       THEN /\ printed' = Some(input[1].point)
            /\ failures' = failures
            /\ pc' = "done"
       ELSE /\ printed' = printed
            /\ failures' = Append(failures, <<"error">>)
            /\ pc' = "exit"
    /\ UNCHANGED <<cmd, input, bare_info, p2sh_info, segwit_info, log, calls>>

\* --------------------------------------- ecdsa-verify and schnorr-verify
\* a message digest has DigestLen bytes (secp256k1::Message::from_digest_slice
\* refuses any other length); bytes are bits here
DigestLen == 2
Bytes == {0, 1}
Digests == [1..DigestLen -> Bytes]
\* Vec::reverse
Reverse(s) == [i \in 1..Len(s) |-> s[Len(s) + 1 - i]]

\* the signature argument, once decoded: the digest it signs under the given
\* public key, None for a well-formed signature that signs nothing
Signatures == {None} \cup {Some(m) : m \in Digests}
\* SECP.verify_ecdsa(&msg, &sig, &pubkey).is_ok() / SECP.verify_schnorr(..)
Verifies(msg, sig) == sig = Some(msg)

VerifyCmds == {"ecdsa-verify", "schnorr-verify"}
\* the messages of the need(..) calls that precede the verification
VerifyArgFailures(c) ==
    {"invalid hex message", "invalid message to be signed", "invalid pubkey",
     "invalid signature: not hex", "invalid signature"}
        \cup (IF c = "ecdsa-verify" THEN {"invalid DER signature"} ELSE {})

\* lines 128-144 / 210-222: the arguments are decoded; the message is
\* reversed when --reverse is present
ExecVerify(c) ==
    /\ cmd = "none"
    /\ cmd' = c
    /\ \/ /\ \E message \in Digests, sig \in Signatures,
                reverse \in BOOLEAN, no_try_reverse \in BOOLEAN :
                input' = Some([ msg_bytes      |-> IF reverse THEN Reverse(message)
                                                   ELSE message,
                                sig            |-> sig,
                                reverse        |-> reverse,
                                no_try_reverse |-> no_try_reverse ])
          /\ pc' = "verify"
          /\ failures' = failures
       \/ /\ input' = None
          /\ pc' = "exit"
          /\ \E msg \in VerifyArgFailures(c) : failures' = Append(failures, <<msg>>)
    /\ UNCHANGED <<bare_info, p2sh_info, segwit_info, printed, log, calls>>

\* line 146 / 224: let valid = SECP.verify_*(..).is_ok(), and the guard of
\* the retry (line 149 / 227)
VerifyFirst(c) ==
    /\ cmd = c /\ pc = "verify"
    /\ LET valid == Verifies(input[1].msg_bytes, input[1].sig) IN
        /\ calls' = Append(calls, [msg |-> input[1].msg_bytes, ok |-> valid])
        /\ pc' = IF ~valid /\ ~input[1].no_try_reverse THEN "retry" ELSE "report"
    /\ UNCHANGED <<cmd, input, bare_info, p2sh_info, segwit_info, printed, failures, log>>

\* lines 150-160 / 228-238: verify the reversed message, print the hint
VerifyRetry(c) ==
    /\ cmd = c /\ pc = "retry"
    /\ LET msg == Reverse(input[1].msg_bytes)
           ok  == Verifies(msg, input[1].sig)
       IN  /\ calls' = Append(calls, [msg |-> msg, ok |-> ok])
           /\ failures' =
                IF ok
                THEN failures \o
                       << <<"Signature is valid for the reverse message.">>,
                          IF input[1].reverse
                          THEN <<"Try dropping the --reverse">>
                          ELSE <<"If the message is a Bitcoin SHA256 hash, try --reverse">> >>
                ELSE failures
    /\ pc' = "report"
    /\ UNCHANGED <<cmd, input, bare_info, p2sh_info, segwit_info, printed, log>>

\* the report deciding on any successful verification, the retry included
VerifyReport_any_call(c) ==
    /\ cmd = c /\ pc = "report"
    /\ IF \E i \in 1..Len(calls) : calls[i].ok
       THEN /\ printed' = Some("Signature is valid.")
            /\ failures' = failures
            /\ pc' = "done"
       ELSE /\ printed' = printed
            /\ failures' = Append(failures, <<"Signature is invalid!">>)
            /\ pc' = "exit"
    /\ UNCHANGED <<cmd, input, bare_info, p2sh_info, segwit_info, log, calls>>

\* lines 163-168 / 241-246: if valid { println! } else { eprintln!; exit(1) }
VerifyReport(c) ==
    /\ cmd = c /\ pc = "report"
    /\ IF calls[1].ok
       THEN /\ printed' = Some("Signature is valid.")
            /\ failures' = failures
            /\ pc' = "done"
       ELSE /\ printed' = printed
            /\ failures' = Append(failures, <<"Signature is invalid!">>)
            /\ pc' = "exit"
    /\ UNCHANGED <<cmd, input, bare_info, p2sh_info, segwit_info, log, calls>>

ExecEcdsaVerify     == ExecVerify("ecdsa-verify")
EcdsaVerifyFirst    == VerifyFirst("ecdsa-verify")
EcdsaVerifyRetry    == VerifyRetry("ecdsa-verify")
EcdsaVerifyReport   == VerifyReport("ecdsa-verify")
ExecSchnorrVerify   == ExecVerify("schnorr-verify")
SchnorrVerifyFirst  == VerifyFirst("schnorr-verify")
SchnorrVerifyRetry  == VerifyRetry("schnorr-verify")
SchnorrVerifyReport == VerifyReport("schnorr-verify")

\* ------------------------------------------- address create (address.rs)
\* NUMS_H (lines 15-24): a fixed public key
NUMS_H == 2

\* an option value as typed: well-formed with value v, or malformed
Typed(vals) == [ok : {TRUE}, v : vals] \cup {[ok |-> FALSE, v |-> 0]}

\* the arguments of `address create`: --pubkey, --script (hex of script n),
\* the flag --nums-internal-key-h, --nums-internal-key, --nums-internal-key-entropy
CreateArgs ==
    [ pubkey       : {None} \cup {Some(k) : k \in Typed(PublicKeys)},
      script       : {None} \cup {Some(s) : s \in Typed(1..MaxExpr)},
      nums_h       : BOOLEAN,
      nums_key     : {None} \cup {Some(k) : k \in Typed(PublicKeys)},
      nums_entropy : {None} \cup {Some(e) : e \in Typed(Scalars)} ]

\* util::more_than_one(&[bool]): more than one of the flags is set
more_than_one(flags) == Cardinality({i \in 1..Len(flags) : flags[i]}) > 1

\* hal::address::Addresses::from_pubkey / from_script: the addresses derived
\* from the key or the script, and the p2tr field; the script alone gives no
\* taproot address (line 76: NUMS information adds one)
Addresses_from_pubkey(pubkey) ==
    [ of |-> <<"pubkey", pubkey>>, p2tr |-> Some(<<"p2tr", <<>>, pubkey>>) ]
Addresses_from_script(script) ==
    [ of |-> <<"script", script>>, p2tr |-> None ]
\* script.to_v1_p2tr(&SECP, pk.into()), as an address
to_v1_p2tr(script, pk) == <<"p2tr", script, pk>>

\* nums(entropy) (lines 27-29): NUMS_H.add_exp_tweak(entropy).need(..)
nums(entropy) == add_exp_tweak(NUMS_H, entropy)

\* lines 85-95: the internal key chosen from the NUMS options: Some(key),
\* None without any option, or the message of the need that failed
nums_internal_key(a) ==
    IF a.nums_h THEN [err |-> "", key |-> Some(NUMS_H)]
    ELSE IF IsSome(a.nums_key)
    THEN IF a.nums_key[1].ok THEN [err |-> "", key |-> Some(a.nums_key[1].v)]
         ELSE [err |-> "invalid nums internal key", key |-> None]
    ELSE IF IsSome(a.nums_entropy)
    THEN IF ~a.nums_entropy[1].ok
         THEN [err |-> "invalid entropy format: must be 32-byte hex", key |-> None]
         ELSE IF nums(a.nums_entropy[1].v).ok
         THEN [err |-> "", key |-> Some(nums(a.nums_entropy[1].v).key)]
         ELSE [err |-> "invalid NUMS entropy", key |-> None]
    ELSE [err |-> "", key |-> None]

\* lines 72-98 with the check of lines 77-84 left out: the first NUMS option
\* present wins
create_from_script_first_wins(a) ==
    IF ~a.script[1].ok THEN [exit |-> TRUE, msg |-> "invalid script hex", ret |-> None]
    ELSE LET script == Script(a.script[1].v)
             ret    == Addresses_from_script(script)
             chosen == nums_internal_key(a)
         IN  IF chosen.err # "" THEN [exit |-> TRUE, msg |-> chosen.err, ret |-> None]
             ELSE IF IsSome(chosen.key)
             THEN [exit |-> FALSE, msg |-> "",
                   ret  |-> Some([ret EXCEPT !.p2tr = Some(to_v1_p2tr(script, chosen.key[1]))])]
             ELSE [exit |-> FALSE, msg |-> "", ret |-> Some(ret)]

\* lines 71-100: the --script branch of exec_create
create_from_script(a) ==
    IF ~a.script[1].ok THEN [exit |-> TRUE, msg |-> "invalid script hex", ret |-> None]
    ELSE LET script == Script(a.script[1].v)
             ret    == Addresses_from_script(script)
             chosen == nums_internal_key(a)
         IN  IF more_than_one(<<a.nums_h, IsSome(a.nums_key), IsSome(a.nums_entropy)>>)
             THEN [exit |-> TRUE,
                   msg  |-> "Use only either nums-h, nums-internal-key or nums-internal-key-entropy.",
                   ret  |-> None]
             ELSE IF chosen.err # "" THEN [exit |-> TRUE, msg |-> chosen.err, ret |-> None]
             ELSE IF IsSome(chosen.key)
             THEN [exit |-> FALSE, msg |-> "",
                   ret  |-> Some([ret EXCEPT !.p2tr = Some(to_v1_p2tr(script, chosen.key[1]))])]
             ELSE [exit |-> FALSE, msg |-> "", ret |-> Some(ret)]

ExecCreate ==
    /\ cmd = "none"
    /\ cmd' = "address-create"
    /\ \E a \in CreateArgs : input' = Some(a)
    /\ pc' = "create"
    /\ UNCHANGED <<bare_info, p2sh_info, segwit_info, printed, failures, log, calls>>

\* lines 68-70: --pubkey given (args.pubkey exits on a malformed key)
CreateFromPubkey ==
    /\ cmd = "address-create" /\ pc = "create"
    /\ IsSome(input[1].pubkey)
    /\ IF input[1].pubkey[1].ok
       THEN /\ printed' = Some(Addresses_from_pubkey(input[1].pubkey[1].v))
            /\ failures' = failures
            /\ pc' = "done"
       ELSE /\ printed' = printed
            /\ failures' = Append(failures, <<"invalid pubkey">>)
            /\ pc' = "exit"
    /\ UNCHANGED <<cmd, input, bare_info, p2sh_info, segwit_info, log, calls>>

\* lines 71-100: no --pubkey, --script given
CreateFromScript ==
    /\ cmd = "address-create" /\ pc = "create"
    /\ IsNone(input[1].pubkey) /\ IsSome(input[1].script)
    /\ LET r == create_from_script(input[1]) IN
        IF r.exit
        THEN /\ printed' = printed
             /\ failures' = Append(failures, <<r.msg>>)
             /\ pc' = "exit"
        ELSE /\ printed' = r.ret
             /\ failures' = failures
             /\ pc' = "done"
    /\ UNCHANGED <<cmd, input, bare_info, p2sh_info, segwit_info, log, calls>>

\* lines 101-104: neither given: print the help and exit 1
CreateHelp ==
    /\ cmd = "address-create" /\ pc = "create"
    /\ IsNone(input[1].pubkey) /\ IsNone(input[1].script)
    /\ failures' = Append(failures, <<"help">>)
    /\ pc' = "exit"
    /\ UNCHANGED <<cmd, input, bare_info, p2sh_info, segwit_info, printed, log, calls>>

\* ------------------------------------------------------------------- spec
Next ==
    \/ ExecInspect
    \/ InspectPkBare
    \/ InspectPkP2sh
    \/ InspectPkSegwit
    \/ InspectTryStrings
    \/ InspectStrBare
    \/ InspectStrP2sh
    \/ InspectStrSegwit
    \/ InspectCombineStr
    \/ InspectCombinePk
    \/ ExecParse
    \/ ParseSegwit
    \/ ParseLegacy
    \/ ParseBare
    \/ ParseExit
    \/ ParseCombine
    \/ ExecPolicy
    \/ PolicyPk
    \/ PolicyStr
    \/ ExecCompile
    \/ CompileParse
    \/ CompileRun
    \/ ExecDescriptor
    \/ DescriptorPk
    \/ DescriptorStr
    \/ ExecPubkeyTweakAdd
    \/ PubkeyTweakAdd
    \/ ExecEcdsaVerify
    \/ EcdsaVerifyFirst
    \/ EcdsaVerifyRetry
    \/ EcdsaVerifyReport
    \/ ExecSchnorrVerify
    \/ SchnorrVerifyFirst
    \/ SchnorrVerifyRetry
    \/ SchnorrVerifyReport
    \/ ExecCreate
    \/ CreateFromPubkey
    \/ CreateFromScript
    \/ CreateHelp

Spec == Init /\ [][Next]_vars

\* ================================================================ claims
Terminal == pc \in {"done", "exit", "panic"}
InspectOrParse == cmd \in {"inspect", "parse"}

\* the per-context report of the last attempt under c; no Miniscript is ever
\* constructed under Tapscript, so that context never has one
InfoOf(c) ==
    CASE c = "bare"      -> bare_info
      [] c = "p2sh"      -> p2sh_info
      [] c = "segwitv0"  -> segwit_info
      [] c = "tapscript" -> None

\* the per-context reports in merge order
MergeOrder == <<bare_info, p2sh_info, segwit_info>>
Produced == SelectSeq(MergeOrder, IsSome)
AllFailed == Produced = <<>>
FirstSuccessful == Produced[1][1]
LastSuccessful == Produced[Len(Produced)][1]

\* ---------------------------------------------------------------------
\* C1: when inspect or parse prints a Combined Report, its
\* valid_script_contexts flag for a context c is true exactly if a report
\* was produced under c, i.e. the parse under c succeeded; a context that
\* failed (or was never attempted) has its flag false.
C1_FlagsAreParseOutcomes ==
    (InspectOrParse /\ pc = "done") =>
        \A c \in Contexts :
            printed[1].valid_script_contexts[c] <=> IsSome(InfoOf(c))

C1_Witness ==
    /\ cmd = "inspect" /\ pc = "done"
    /\ IsSome(bare_info) /\ IsNone(p2sh_info) /\ IsSome(segwit_info)
    /\ printed[1].valid_script_contexts["bare"]
    /\ ~printed[1].valid_script_contexts["p2sh"]

\* ---------------------------------------------------------------------
\* C2 (as claimed): when two or more contexts succeed, every non-flag field
\* of the Combined Report equals the same field of the first successful
\* per-context report in merge order.
C2_AllFromFirstSuccessful ==
    (InspectOrParse /\ pc = "done" /\ Len(Produced) >= 2) =>
        /\ printed[1].script_size = FirstSuccessful.script_size
        /\ printed[1].max_satisfaction_witness_elements
             = FirstSuccessful.max_satisfaction_witness_elements
        /\ printed[1].max_satisfaction_size_segwit
             = FirstSuccessful.max_satisfaction_size_segwit
        /\ printed[1].max_satisfaction_size_non_segwit
             = FirstSuccessful.max_satisfaction_size_non_segwit
        /\ printed[1].script = FirstSuccessful.script
        /\ printed[1].policy = FirstSuccessful.policy
        /\ printed[1].requires_sig = FirstSuccessful.requires_sig
        /\ printed[1].has_mixed_timelocks = FirstSuccessful.has_mixed_timelocks
        /\ printed[1].has_repeated_keys = FirstSuccessful.has_repeated_keys

\* the first present value of an optional field over the produced reports
FirstPresent(field(_)) ==
    LET present == SelectSeq(Produced, LAMBDA r : IsSome(field(r[1])))
    IN  IF present = <<>> THEN None ELSE field(present[1][1])

\* C2 (amended): when two or more contexts succeed, script_size, script,
\* requires_sig and has_mixed_timelocks are those of the first successful
\* report in merge order; each optional field (witness elements, the two
\* satisfaction sizes, policy) is the first present value over the
\* successful reports in merge order, so it can come from a later context
\* than the first; has_repeated_keys is read from the last successful one.
C2_FirstSuccessfulOrFirstPresent ==
    (InspectOrParse /\ pc = "done" /\ Len(Produced) >= 2) =>
        /\ printed[1].script_size = FirstSuccessful.script_size
        /\ printed[1].script = FirstSuccessful.script
        /\ printed[1].requires_sig = FirstSuccessful.requires_sig
        /\ printed[1].has_mixed_timelocks = FirstSuccessful.has_mixed_timelocks
        /\ printed[1].max_satisfaction_witness_elements
             = FirstPresent(LAMBDA r : r.max_satisfaction_witness_elements)
        /\ printed[1].max_satisfaction_size_segwit
             = FirstPresent(LAMBDA r : r.max_satisfaction_size_segwit)
        /\ printed[1].max_satisfaction_size_non_segwit
             = FirstPresent(LAMBDA r : r.max_satisfaction_size_non_segwit)
        /\ printed[1].policy = FirstPresent(LAMBDA r : r.policy)
        /\ printed[1].has_repeated_keys = LastSuccessful.has_repeated_keys

\* Bare refused the lift, Segwitv0 did not: both the policy and the segwit
\* size of the Combined Report come from the Segwitv0 report
C2_Witness ==
    /\ cmd = "parse" /\ pc = "done"
    /\ IsSome(bare_info) /\ IsSome(segwit_info)
    /\ IsNone(bare_info[1].policy) /\ IsSome(segwit_info[1].policy)
    /\ IsSome(printed[1].max_satisfaction_size_segwit)
    /\ IsSome(printed[1].max_satisfaction_size_non_segwit)
    /\ printed[1].policy = segwit_info[1].policy

\* ---------------------------------------------------------------------
\* C3: inspect and parse attempt the input under Tapscript too, so an input
\* that is valid under Tapscript and under no other context ends with a
\* Combined Report whose Tapscript flag is set, not with a failure.
C3_TapscriptAttempted ==
    (InspectOrParse /\ Terminal /\ IsSome(input)
       /\ input[1].tapscript_ok /\ AllFailed) =>
        /\ pc = "done"
        /\ IsSome(printed)
        /\ printed[1].valid_script_contexts["tapscript"]

\* ---------------------------------------------------------------------
\* C4: when inspect or parse ends and every attempted context failed (for
\* inspect: with concrete keys and then with placeholder keys), exactly one
\* failure was surfaced and nothing was printed; when at least one context
\* succeeded a Combined Report was printed and no failure was surfaced.
C4_OneAggregateFailure ==
    (InspectOrParse /\ Terminal /\ IsSome(input)) =>
        /\ AllFailed => (Len(failures) = 1 /\ IsNone(printed) /\ pc = "exit")
        /\ ~AllFailed => (failures = <<>> /\ IsSome(printed) /\ pc = "done")

C4_Witness ==
    /\ cmd = "inspect" /\ pc = "exit"
    /\ AllFailed
    /\ failures = << <<"Invalid Miniscript">> >>
    /\ Len(SelectSeq(log, LAMBDA e : e.what = "parse")) = 6

\* ---------------------------------------------------------------------
\* C5: the Combined Report does not depend on the order in which the
\* per-context reports of one input are merged: combine is commutative and
\* associative on them, and when the command ends every order of merging
\* the three reports gives the report that is printed.
C5_MergeOrderIrrelevant ==
    (InspectOrParse /\ Terminal) =>
        LET merged == combine(combine(bare_info, p2sh_info), segwit_info) IN
        /\ \A x, y \in 1..3 :
              x < y => combine(MergeOrder[x], MergeOrder[y])
                         = combine(MergeOrder[y], MergeOrder[x])
        /\ \A x, y, z \in 1..3 :
              (x # y /\ y # z /\ x # z) =>
                /\ combine(combine(MergeOrder[x], MergeOrder[y]), MergeOrder[z]) = merged
                /\ combine(MergeOrder[x], combine(MergeOrder[y], MergeOrder[z])) = merged
        /\ pc = "done" => printed = merged

\* all three contexts succeeded and differ in what they report
C5_Witness ==
    /\ cmd = "inspect" /\ pc = "done"
    /\ Len(Produced) = 3
    /\ IsNone(bare_info[1].policy) /\ IsSome(p2sh_info[1].policy)
    /\ IsSome(segwit_info[1].max_satisfaction_size_segwit)
    /\ bare_info[1].sane_miniscript["bare"]
    /\ ~segwit_info[1].sane_miniscript["segwitv0"]

\* ---------------------------------------------------------------------
\* the policy text parses, as a concrete or as an abstract policy
PolicyParses(p) ==
    \E kt \in KeyTypes : (p.concrete[kt] /\ p.lift_ok) \/ (~p.concrete[kt] /\ p.semantic[kt])

\* C6: a policy that parses and is unsatisfiable is reported, not fatal:
\* `policy` ends by printing a PolicyInfo with is_unsatisfiable = true.
C6_UnsatisfiableReported ==
    (cmd = "policy" /\ Terminal /\ PolicyParses(input[1]) /\ input[1].is_unsatisfiable) =>
        /\ pc = "done"
        /\ IsSome(printed)
        /\ printed[1].is_unsatisfiable

\* ---------------------------------------------------------------------
\* what get_policy_info needs to return a report, compilation aside
PolicyAccepted(p, kt) ==
    /\ (p.concrete[kt] /\ p.lift_ok) \/ (~p.concrete[kt] /\ p.semantic[kt])
    /\ IsSome(p.minimum_n_keys)

\* C7: the PolicyInfo carries the compiled miniscripts exactly if the text
\* parsed as a concrete policy (is_concrete); for a concrete policy the
\* entry of a context is absent exactly if compilation failed under that
\* context, and whether a report is returned at all does not depend on any
\* compilation outcome; for an abstract policy the set is absent.
C7_CompiledIffConcrete ==
    (cmd = "policy" /\ Terminal) =>
        /\ pc = "done" <=> \E kt \in KeyTypes : PolicyAccepted(input[1], kt)
        /\ pc = "done" =>
            LET info == printed[1] IN
            /\ info.is_concrete = input[1].concrete[info.key_type]
            /\ IsSome(info.miniscript) <=> info.is_concrete
            /\ info.is_concrete =>
                /\ IsSome(info.miniscript[1].bare) <=> input[1].compiles["bare"]
                /\ IsSome(info.miniscript[1].p2sh) <=> input[1].compiles["p2sh"]
                /\ IsSome(info.miniscript[1].segwitv0) <=> input[1].compiles["segwitv0"]

\* a concrete policy that compiles for Segwitv0 only is still reported
C7_Witness ==
    /\ cmd = "policy" /\ pc = "done"
    /\ printed[1].is_concrete
    /\ IsNone(printed[1].miniscript[1].bare)
    /\ IsNone(printed[1].miniscript[1].p2sh)
    /\ IsSome(printed[1].miniscript[1].segwitv0)

\* ---------------------------------------------------------------------
\* C8: compile parses the policy once and invokes the compiler once, for the
\* requested context only: it prints a script exactly if the text parses as
\* a concrete policy and compiles under the target; a parse failure is
\* surfaced as "Invalid concrete policy" without any compiler call, a
\* compiler failure as "Compilation error"; the outcome is a function of the
\* target context's compilation result alone.
C8_CompileTargetOnly ==
    (cmd = "compile" /\ Terminal) =>
        LET p == input[1].policy
            t == input[1].script_type
        IN  /\ IsSome(printed) <=> (p.concrete["PublicKey"] /\ p.compiles[t])
            /\ IsSome(printed) => (failures = <<>> /\ pc = "done")
            /\ ~p.concrete["PublicKey"] =>
                 (failures = << <<"Invalid concrete policy">> >> /\ calls = <<>>)
            /\ p.concrete["PublicKey"] => calls = <<t>>
            /\ (p.concrete["PublicKey"] /\ ~p.compiles[t]) =>
                 failures = << <<"Compilation error">> >>

\* the policy compiles under the requested p2sh only
C8_Witness ==
    /\ cmd = "compile" /\ pc = "done"
    /\ input[1].script_type = "p2sh"
    /\ \A c \in Contexts : input[1].policy.compiles[c] <=> c = "p2sh"
    /\ IsSome(printed)
    /\ calls = <<"p2sh">>

\* ---------------------------------------------------------------------
\* C9: in every per-context report the two maximum-satisfaction sizes are
\* mutually exclusive by context: a Bare or Legacy report carries no segwit
\* size, a Segwitv0 report no non-segwit size.
C9_SizesExclusiveByContext ==
    /\ IsSome(bare_info) => IsNone(bare_info[1].max_satisfaction_size_segwit)
    /\ IsSome(p2sh_info) => IsNone(p2sh_info[1].max_satisfaction_size_segwit)
    /\ IsSome(segwit_info) => IsNone(segwit_info[1].max_satisfaction_size_non_segwit)
    /\ \A c \in TriedContexts :
        IsSome(InfoOf(c)) =>
            ~(IsSome(InfoOf(c)[1].max_satisfaction_size_segwit)
              /\ IsSome(InfoOf(c)[1].max_satisfaction_size_non_segwit))

C9_Witness ==
    /\ IsSome(bare_info) /\ IsSome(p2sh_info) /\ IsSome(segwit_info)
    /\ IsSome(bare_info[1].max_satisfaction_size_non_segwit)
    /\ IsSome(p2sh_info[1].max_satisfaction_size_non_segwit)
    /\ IsSome(segwit_info[1].max_satisfaction_size_segwit)

\* ---------------------------------------------------------------------
\* C10: placeholder-key reports lack exactly the fields that need key
\* material: the report inspect prints has no script exactly when its
\* key_type is String and has one exactly when it is PublicKey; the
\* DescriptorInfo of a String descriptor has no address, script_pubkey,
\* unsigned_script_sig or witness_script, while its policy and
\* max_satisfaction_weight are the library's answers under either key type.
C10_KeyMaterialFieldsOnly ==
    /\ (cmd = "inspect" /\ pc = "done") =>
        /\ printed[1].key_type \in KeyTypes
        /\ IsNone(printed[1].script) <=> printed[1].key_type = "String"
        /\ IsSome(printed[1].script) <=> printed[1].key_type = "PublicKey"
        /\ \A c \in TriedContexts :
            IsSome(InfoOf(c)) => InfoOf(c)[1].key_type = printed[1].key_type
    /\ (cmd = "descriptor" /\ pc = "done") =>
        /\ printed[1].key_type = "String" =>
            /\ IsNone(printed[1].address)
            /\ IsNone(printed[1].script_pubkey)
            /\ IsNone(printed[1].unsigned_script_sig)
            /\ IsNone(printed[1].witness_script)
        /\ printed[1].policy = input[1].lift
        /\ printed[1].max_satisfaction_weight = input[1].max_weight

\* inspect succeeded with placeholder keys only
C10_Witness ==
    /\ cmd = "inspect" /\ pc = "done"
    /\ printed[1].key_type = "String"
    /\ IsNone(printed[1].script)
    /\ IsSome(printed[1].policy)

\* ---------------------------------------------------------------------
\* C11: inspect and parse never panic: the unwrap of the merged report is
\* reached only when at least one per-context report exists, and the merge
\* of the three per-context reports is None only when all three are None,
\* so the unwrap is always applied to a present value.
C11_UnwrapNeverPanics ==
    /\ pc # "panic"
    /\ (InspectOrParse /\ pc \in {"pk_done", "str_done", "parse_done"}) =>
        /\ IsNone(combine(bare_info, p2sh_info))
             <=> (IsNone(bare_info) /\ IsNone(p2sh_info))
        /\ IsNone(combine(combine(bare_info, p2sh_info), segwit_info)) <=> AllFailed

\* the unwrap was applied after two of the three contexts failed
C11_Witness ==
    /\ cmd = "parse" /\ pc = "done"
    /\ IsSome(bare_info) /\ IsNone(p2sh_info) /\ IsNone(segwit_info)
    /\ printed = bare_info
    /\ Len(SelectSeq(log, LAMBDA e : e.what = "parse")) = 2

\* ---------------------------------------------------------------------
\* C12: a script that the parser accepts under Bare and under Legacy, as it
\* does the encoding of multi(2,A,B,C), gets a Combined Report that flags
\* Bare and Legacy valid and Tapscript invalid; the Tapscript flag is true
\* in no Combined Report, whatever the input contains, so in none for an
\* input with a multi fragment (which Tapscript does not admit).
C12_MultiBareLegacyNotTapscript ==
    (InspectOrParse /\ pc = "done") =>
        /\ ~printed[1].valid_script_contexts.tapscript
        /\ (IsSome(bare_info) /\ IsSome(p2sh_info)) =>
              /\ printed[1].valid_script_contexts.bare
              /\ printed[1].valid_script_contexts.p2sh

\* parse of a script accepted under Bare, Legacy and Segwitv0 and not
\* admissible under Tapscript
C12_Witness ==
    /\ cmd = "parse" /\ pc = "done"
    /\ ~input[1].tapscript_ok
    /\ IsSome(bare_info) /\ IsSome(p2sh_info) /\ IsSome(segwit_info)
    /\ printed[1].valid_script_contexts =
         [bare |-> TRUE, p2sh |-> TRUE, segwitv0 |-> TRUE, tapscript |-> FALSE]

\* ---------------------------------------------------------------------
\* C16: pubkey-tweak-add prints the tweaked key point + scalar*G, which
\* differs from the input point for every non-zero scalar; when the tweak
\* fails it prints an error and exits with status 1, printing no key.
C16_TweakAddPrintsSum ==
    (cmd = "pubkey-tweak-add" /\ Terminal /\ IsSome(input)) =>
        LET r == add_exp_tweak(input[1].point, input[1].scalar) IN
            IF r.ok
            THEN /\ pc = "done"
                 /\ printed = Some(r.key)
                 /\ (input[1].scalar # 0 => printed[1] # input[1].point)
            ELSE /\ pc = "exit"
                 /\ IsNone(printed)
                 /\ failures = << <<"error">> >>

\* ---------------------------------------------------------------------
\* C17: inspect runs the placeholder-key parsers only after the
\* concrete-key parse failed under Bare, Legacy and Segwitv0 (the first
\* three records logged are those three parse failures); the reports handed
\* to combine all have the same key type, so its assertion holds; and the
\* Combined Report's key_type is PublicKey exactly if a concrete-key parse
\* succeeded, i.e. fewer than three parse failures were logged.
ParseFailures == SelectSeq(log, LAMBDA e : e.what = "parse")

C17_KeyTypesNeverMixed ==
    (cmd = "inspect") =>
        /\ pc \in {"str_bare", "str_p2sh", "str_segwit", "str_done"} =>
              /\ Len(log) >= 3
              /\ \A i \in 1..3 :
                    /\ log[i].what = "parse"
                    /\ log[i].ctx = <<"bare", "p2sh", "segwitv0">>[i]
        /\ \A i, j \in 1..Len(Produced) :
              Produced[i][1].key_type = Produced[j][1].key_type
        /\ pc = "done" =>
              /\ printed[1].key_type = "PublicKey" <=> Len(ParseFailures) < 3
              /\ printed[1].key_type = "String" <=> Len(ParseFailures) >= 3

\* placeholder keys: the concrete round failed three times, then two of the
\* three placeholder parses succeeded and were merged
C17_Witness ==
    /\ cmd = "inspect" /\ pc = "done"
    /\ Len(ParseFailures) = 4
    /\ IsSome(bare_info) /\ IsNone(p2sh_info) /\ IsSome(segwit_info)
    /\ bare_info[1].key_type = "String" /\ segwit_info[1].key_type = "String"
    /\ printed[1].key_type = "String"

\* ---------------------------------------------------------------------
\* C18: in every Combined Report and for every context c, the flags
\* non_malleable, within_resource_limits and sane_miniscript for c are false
\* when c is not flagged valid; when c is valid they are the values computed
\* under c: non_malleable is the analyzer's answer for the expression, the
\* other two are those of the report produced under c.
C18_MetricsOnlyForValidContexts ==
    (InspectOrParse /\ pc = "done") =>
        \A c \in Contexts :
            IF printed[1].valid_script_contexts[c]
            THEN /\ IsSome(InfoOf(c))
                 /\ printed[1].non_malleable[c] = input[1].non_malleable
                 /\ printed[1].within_resource_limits[c]
                      = InfoOf(c)[1].within_resource_limits[c]
                 /\ printed[1].sane_miniscript[c] = InfoOf(c)[1].sane_miniscript[c]
            ELSE /\ ~printed[1].non_malleable[c]
                 /\ ~printed[1].within_resource_limits[c]
                 /\ ~printed[1].sane_miniscript[c]

\* Bare parsed and is non-malleable, Legacy failed: the Legacy metric flags
\* stay false; Bare and Segwitv0 differ in their sanity answers and each
\* keeps its own
C18_Witness ==
    /\ cmd = "parse" /\ pc = "done"
    /\ IsSome(bare_info) /\ IsNone(p2sh_info) /\ IsSome(segwit_info)
    /\ input[1].non_malleable
    /\ printed[1].non_malleable =
         [bare |-> TRUE, p2sh |-> FALSE, segwitv0 |-> TRUE, tapscript |-> FALSE]
    /\ printed[1].sane_miniscript.bare /\ ~printed[1].sane_miniscript.segwitv0
    /\ ~printed[1].within_resource_limits.bare
    /\ printed[1].within_resource_limits.segwitv0

\* ---------------------------------------------------------------------
\* C19: ecdsa-verify and schnorr-verify end with "Signature is valid." and
\* status 0 exactly if the signature verifies for the message as given
\* (reversed when --reverse is present), and otherwise with "Signature is
\* invalid!" and status 1; the reversed message is tried exactly when the
\* first verification failed and --no-try-reverse is absent, and a
\* successful retry adds only the hint, the command still ends invalid.
ReverseHint == <<"Signature is valid for the reverse message.">>
HintPrinted == \E i \in 1..Len(failures) : failures[i] = ReverseHint

C19_VerifyReportsFirstResult ==
    (cmd \in VerifyCmds /\ Terminal /\ IsSome(input)) =>
        LET valid == Verifies(input[1].msg_bytes, input[1].sig) IN
            /\ pc = "done" <=> valid
            /\ pc = "exit" <=> ~valid
            /\ valid => (printed = Some("Signature is valid.") /\ failures = <<>>)
            /\ ~valid => /\ IsNone(printed)
                         /\ failures[Len(failures)] = <<"Signature is invalid!">>
            /\ Len(calls) = 2 <=> (~valid /\ ~input[1].no_try_reverse)
            /\ Len(calls) = 1 <=> (valid \/ input[1].no_try_reverse)
            /\ HintPrinted <=>
                 /\ ~valid /\ ~input[1].no_try_reverse
                 /\ Verifies(Reverse(input[1].msg_bytes), input[1].sig)

\* the signature signs the reversed message: the hint is printed and the
\* command still ends invalid
C19_Witness ==
    /\ cmd = "schnorr-verify" /\ pc = "exit"
    /\ IsSome(input) /\ ~input[1].reverse
    /\ Len(calls) = 2 /\ ~calls[1].ok /\ calls[2].ok
    /\ HintPrinted
    /\ IsNone(printed)

\* ---------------------------------------------------------------------
\* C20: address create with --script and without --pubkey: with more than
\* one of the three NUMS options it exits with status 1 and prints no
\* address; with exactly one (its value well-formed) the output's p2tr is
\* the address built from the script and that internal key (H, the given
\* key, or H + entropy*G), a malformed value exiting without output; with
\* none the output is what the script alone gives.  With --pubkey the
\* output is that of the key, whatever the NUMS options are.
NumsGiven(a) ==
    Cardinality({o \in {"h", "key", "entropy"} :
                    \/ o = "h" /\ a.nums_h
                    \/ o = "key" /\ IsSome(a.nums_key)
                    \/ o = "entropy" /\ IsSome(a.nums_entropy)})

C21_SeverityByContextNoAbort ==
    InspectOrParse =>
        /\ \A i \in 1..Len(log) :
              log[i].what = "parse" =>
                 /\ log[i].ctx \in {"bare", "p2sh"} => log[i].level = "debug"
                 /\ log[i].ctx = "segwitv0" => log[i].level = "info"
                 /\ log[i].ctx \in TriedContexts
        /\ (pc = "exit" /\ IsSome(input)) =>
              /\ AllFailed
              /\ Len(ParseFailures) = IF cmd = "inspect" THEN 6 ELSE 3
        /\ (Terminal /\ ~AllFailed) => (pc = "done" /\ IsSome(printed))
        /\ (pc = "done") => Len(ParseFailures) + Len(Produced)
                               = IF printed[1].key_type = "String" THEN 6 ELSE 3

\* placeholder keys: Bare parsed in the second round; the Segwitv0 failure
\* was logged at info and the Bare failure at debug in the first round, the
\* Legacy and Segwitv0 failures again in the second, and a report came out
C21_Witness ==
    /\ cmd = "inspect" /\ pc = "done"
    /\ IsSome(printed) /\ printed[1].key_type = "String"
    /\ Len(ParseFailures) = 5
    /\ ParseFailures[1] = [level |-> "debug", what |-> "parse", ctx |-> "bare"]
    /\ ParseFailures[3] = [level |-> "info", what |-> "parse", ctx |-> "segwitv0"]
    /\ ParseFailures[4] = [level |-> "debug", what |-> "parse", ctx |-> "p2sh"]
    /\ ParseFailures[5] = [level |-> "info", what |-> "parse", ctx |-> "segwitv0"]

====
